---------------------------- MODULE Spec2Model ----------------------------
(***************************************************************************)
(* Model of the AO3 random-work service: the fallback orchestrator         *)
(* (ao3_service.py) and the JSON file cache (search_cache.py).             *)
(*                                                                         *)
(* Threads run get_random_work_with_fallback concurrently.  The cache is   *)
(* one JSON file that is read whole and rewritten whole; its content is    *)
(* modelled as a sequence of tokens, so that a truncated, half-written or  *)
(* interleaved file is a value the parser has to deal with.                *)
(*                                                                         *)
(* The browser scraper (browser_scraper.py) is modelled by its own         *)
(* specification, SpecScraper: threads run search_ao3_sync against one     *)
(* persistent browser.                                                     *)
(***************************************************************************)
EXTENDS Integers, Sequences, FiniteSets, TLC

VARIABLES
    now,          \* time.time(), in seconds
    dirExists,    \* os.path.exists(CACHE_DIR)
    dirCreatable, \* os.makedirs(CACHE_DIR) is permitted
    fileExists,   \* os.path.exists(CACHE_FILE)
    fileReadable, \* open(CACHE_FILE, 'r') is permitted
    fileWritable, \* open(CACHE_FILE, 'w') is permitted
    content,      \* the tokens of CACHE_FILE
    pc,           \* per thread: position in get_random_work_with_fallback
    fr,           \* per thread: the locals of the call
    calls,        \* number of calls of get_random_work_with_fallback so far
    arg,          \* a function applied on its own: its name and arguments
    res,          \* a function applied on its own: what it returned
    _browser_lock, \* browser_scraper.py: the thread that holds the lock, or None
    _browser,     \* browser_scraper.py: None, or the persistent browser
    _semaphore,   \* browser_scraper.py: <<>> for None, <<n>> for a semaphore with n free slots
    contexts,     \* the browser contexts that are open, each named by its search
    spc,          \* per scraper thread: position in search_ao3_sync
    sfr,          \* per scraper thread: the locals of the search
    searches      \* number of calls of search_ao3_sync so far

ScraperVars == <<_browser_lock, _browser, _semaphore, contexts, spc, sfr, searches>>

vars == <<now, dirExists, dirCreatable, fileExists, fileReadable, fileWritable, content, pc, fr,
          calls, arg, res, ScraperVars>>

-----------------------------------------------------------------------------
(* Bounds of the model *)

MaxPages == 2     \* largest page count the catalog reports
MaxCalls == 2     \* calls of get_random_work_with_fallback per behaviour
MaxSearches == 3  \* calls of search_ao3_sync per behaviour

Threads == {"t1", "t2"}
ScraperThreads == {"s1", "s2", "s3"}   \* the threads that call search_ao3_sync
Works == {"w1", "w2"}          \* the work dicts a page can yield

None == "None"                 \* Python None, where a str or a work is expected
NoneObj == [none |-> TRUE]     \* Python None, where a list or a dict is expected

\* the locals of a search that has not started
SearchFrame0 ==
    [search |-> 0, doc |-> 0, random_page |-> 0, page1_works |-> 0,
     works |-> 0, load |-> "none", raised |-> "none", ret |-> None]

\* browser_scraper.py lines 19-22: the module's globals after import, no search running
ScraperIdle ==
    /\ _browser_lock = None
    /\ _browser = None
    /\ _semaphore = <<>>
    /\ contexts = {}
    /\ spc = [p \in ScraperThreads |-> "idle"]
    /\ sfr = [p \in ScraperThreads |-> SearchFrame0]
    /\ searches = 0

-----------------------------------------------------------------------------
(* Program constants *)

DEFAULT_TTL_SECONDS == 3600
MAX_PAGE_CAP == 200

AO3ErrorType == {"none", "timeout", "empty_response", "network_error", "parse_error", "http_error"}
NONE == "none"
FailureKinds == AO3ErrorType \ {NONE}

NoWorksMessage == "No works found matching the selected filters."
UnavailableMessage == "AO3 is currently slow or unavailable. Please try again in a few moments."

-----------------------------------------------------------------------------
(* Strings: a str is a sequence of characters, so that lower() and strip()  *)
(* are computed and not assumed.                                            *)

Chars == {" ", "A", "a", "b"}

CharCode(c) == CASE c = " " -> 32 [] c = "A" -> 65 [] c = "a" -> 97 [] c = "b" -> 98

LowerChar(c) == IF c = "A" THEN "a" ELSE c

lower(s) == [i \in 1..Len(s) |-> LowerChar(s[i])]

RECURSIVE lstrip(_)
lstrip(s) == IF s # <<>> /\ Head(s) = " " THEN lstrip(Tail(s)) ELSE s

RECURSIVE rstrip(_)
rstrip(s) == IF s # <<>> /\ s[Len(s)] = " " THEN rstrip(SubSeq(s, 1, Len(s) - 1)) ELSE s

strip(s) == rstrip(lstrip(s))

\* Python's str ordering: lexicographic by code point, a proper prefix first
RECURSIVE StrLess(_, _)
StrLess(s, t) ==
    IF t = <<>> THEN FALSE
    ELSE IF s = <<>> THEN TRUE
    ELSE IF CharCode(Head(s)) # CharCode(Head(t)) THEN CharCode(Head(s)) < CharCode(Head(t))
    ELSE StrLess(Tail(s), Tail(t))

RECURSIVE Insert(_, _)
Insert(x, sortedSeq) ==
    IF sortedSeq = <<>> THEN <<x>>
    ELSE IF StrLess(Head(sortedSeq), x) \/ Head(sortedSeq) = x
         THEN <<Head(sortedSeq)>> \o Insert(x, Tail(sortedSeq))
         ELSE <<x>> \o sortedSeq

\* sorted(list): keeps every element, duplicates included
RECURSIVE sorted(_)
sorted(l) == IF l = <<>> THEN <<>> ELSE Insert(Head(l), sorted(Tail(l)))

\* get_cache_key with the tags left in the order given
get_cache_key_Unsorted(tags, categories, fandom) ==
    [tags       |-> IF tags = <<>> THEN <<>>
                    ELSE [i \in 1..Len(tags) |-> strip(lower(tags[i]))],
     categories |-> IF categories = <<>> THEN <<>> ELSE sorted(categories),
     fandom     |-> IF fandom = <<>> THEN <<>> ELSE strip(lower(fandom))]

\* The sha256 digest of the normalized JSON text is modelled as the normalized
\* value itself: injective, so no two normalized filters collide.  A falsy
\* argument (None, [] or "") is the empty sequence.
get_cache_key(tags, categories, fandom) ==
    [tags       |-> IF tags = <<>> THEN <<>>
                    ELSE sorted([i \in 1..Len(tags) |-> strip(lower(tags[i]))]),
     categories |-> IF categories = <<>> THEN <<>> ELSE sorted(categories),
     fandom     |-> IF fandom = <<>> THEN <<>> ELSE strip(lower(fandom))]

\* The filters the callers pass (categories are written with the characters
\* of the model's alphabet: <<"a">> and <<"b">> stand for two category names).
Filters ==
    { [tags |-> << <<"A">>, <<"b">> >>,      categories |-> << <<"a">> >>, fandom |-> <<>>],
      [tags |-> << <<"b", " ">>, <<"a">> >>, categories |-> << <<"a">> >>, fandom |-> <<>>],
      [tags |-> <<>>,                        categories |-> << <<"b">> >>, fandom |-> <<"A", " ">>] }

KeyOf(f) == get_cache_key(f.tags, f.categories, f.fandom)

Keys == {KeyOf(f) : f \in Filters}


-----------------------------------------------------------------------------
(* The cache file.  json.dump writes "{", one token per key, then "}".      *)
(* A token of a key carries the entry: its results and its timestamp.       *)
(* NUL is a hole left by a write beyond the end of the file; "[" "]" is a   *)
(* JSON document that is a list, not an object.                             *)

LBRACE == [t |-> "{"]
RBRACE == [t |-> "}"]
LBRACKET == [t |-> "["]
RBRACKET == [t |-> "]"]
NUL == [t |-> "NUL"]

IsEntryToken(t) == "key" \in DOMAIN t

\* cache[key] = value on a Python dict kept as an ordered sequence of items:
\* an existing key keeps its place, a new key goes last
RECURSIVE DictSet(_, _)
DictSet(d, item) ==
    IF d = <<>> THEN <<item>>
    ELSE IF Head(d).key = item.key THEN <<item>> \o Tail(d)
    ELSE <<Head(d)>> \o DictSet(Tail(d), item)

\* dict.get(key): the item stored under key, or None
RECURSIVE DictGet(_, _)
DictGet(d, k) ==
    IF d = <<>> THEN NoneObj
    ELSE IF Head(d).key = k THEN Head(d)
    ELSE DictGet(Tail(d), k)

RECURSIVE DictOfItems(_)
DictOfItems(items) ==
    IF items = <<>> THEN <<>>
    ELSE DictSet(DictOfItems(SubSeq(items, 1, Len(items) - 1)), items[Len(items)])

\* json.dump(cache, f): the text written for a dict
json_dump(d) == <<LBRACE>> \o d \o <<RBRACE>>

\* json.load(f): the value of a well-formed document, JSONDecodeError otherwise
json_load(text) ==
    IF text = <<LBRACKET, RBRACKET>> THEN [kind |-> "list", val |-> <<>>]
    ELSE IF /\ Len(text) >= 2
            /\ text[1] = LBRACE
            /\ text[Len(text)] = RBRACE
            /\ \A i \in 2..(Len(text) - 1) : IsEntryToken(text[i])
         THEN [kind |-> "dict", val |-> DictOfItems(SubSeq(text, 2, Len(text) - 1))]
         ELSE [kind |-> "JSONDecodeError", val |-> <<>>]

\* _load_cache(): {} when the file is missing, unreadable or not JSON;
\* otherwise whatever JSON value the file holds
LoadOf(exists, readable, text) ==
    IF ~exists THEN [kind |-> "dict", val |-> <<>>]
    ELSE IF ~readable THEN [kind |-> "dict", val |-> <<>>]
    ELSE IF json_load(text).kind = "JSONDecodeError" THEN [kind |-> "dict", val |-> <<>>]
    ELSE json_load(text)

_load_cache == LoadOf(fileExists, fileReadable, content)

\* f.write(tokens) at offset off of a file holding text
WriteAt(text, off, toks) ==
    LET newLen == IF off + Len(toks) > Len(text) THEN off + Len(toks) ELSE Len(text)
    IN  [i \in 1..newLen |->
            IF i > off /\ i <= off + Len(toks) THEN toks[i - off]
            ELSE IF i <= Len(text) THEN text[i]
            ELSE NUL]

\* get_cached_results(cache_key) on a loaded dict, at time t
IsStale_AtTTL(timestamp, t, ttl_seconds) == (t - timestamp) >= ttl_seconds

IsStale(timestamp, t, ttl_seconds) == (t - timestamp) > ttl_seconds

CachedOf_DropStale(loaded, cache_key, t) ==
    LET entry == DictGet(loaded, cache_key)
    IN  IF entry = NoneObj \/ IsStale(entry.timestamp, t, DEFAULT_TTL_SECONDS) THEN NoneObj
        ELSE [results     |-> entry.results,
              stale       |-> FALSE,
              age_seconds |-> t - entry.timestamp]

CachedOf(loaded, cache_key, t) ==
    LET entry == DictGet(loaded, cache_key)
    IN  IF entry = NoneObj THEN NoneObj
        ELSE [results     |-> entry.results,
              stale       |-> IsStale(entry.timestamp, t, DEFAULT_TTL_SECONDS),
              age_seconds |-> t - entry.timestamp]

\* _error_to_reason(error_type)
_error_to_reason(error_type) ==
    CASE error_type = "timeout"        -> "ao3_timeout"
      [] error_type = "empty_response" -> "ao3_empty_response"
      [] error_type = "network_error"  -> "network_error"
      [] error_type = "http_error"     -> "ao3_http_error"
      [] error_type = "parse_error"    -> "ao3_parse_error"
      [] OTHER                         -> "unknown_error"

-----------------------------------------------------------------------------
(* The two network fetches.  A response is what session.get and the parser  *)
(* hand back; the functions below are the decision logic applied to it.     *)

PAGE_SIZE == 20

FetchResults == {"ok", "Timeout", "RequestException", "Exception"}

\* Python's int is unbounded and its float has a 53-bit significand; both are
\* wider than the integers of the model.  A count is therefore a binary
\* numeral: a sequence of bits, most significant first (<<>> is 0).
DBL_MANT_DIG == 53

RECURSIVE BitsOf(_)
BitsOf(n) == IF n = 0 THEN <<>> ELSE BitsOf(n \div 2) \o <<n % 2>>

RECURSIVE ValueOf(_)
ValueOf(bits) ==
    IF bits = <<>> THEN 0
    ELSE 2 * ValueOf(SubSeq(bits, 1, Len(bits) - 1)) + bits[Len(bits)]

RECURSIVE Trim(_)
Trim(bits) == IF bits # <<>> /\ Head(bits) = 0 THEN Trim(Tail(bits)) ELSE bits

Zeros(k) == [i \in 1..k |-> 0]

\* the numeral written with at least k bits
Pad(bits, k) == Zeros(k - Len(bits)) \o bits

\* a + 1 on numerals
Inc(a) ==
    IF \A i \in 1..Len(a) : a[i] = 1 THEN <<1>> \o Zeros(Len(a))
    ELSE LET j == CHOOSE i \in 1..Len(a) : a[i] = 0 /\ \A k \in (i + 1)..Len(a) : a[k] = 1
         IN  [i \in 1..Len(a) |-> IF i < j THEN a[i] ELSE IF i = j THEN 1 ELSE 0]

\* the arithmetic on numerals goes by chunks of CHUNK bits, each chunk an
\* integer of the model
CHUNK == 20

\* a + k on numerals, for a small k
AddSmall(a, k) ==
    LET n  == IF Len(a) < CHUNK THEN Len(a) ELSE CHUNK
        lo == ValueOf(SubSeq(a, Len(a) - n + 1, Len(a))) + k
        hi == SubSeq(a, 1, Len(a) - n)
    IN  IF lo < 2 ^ CHUNK THEN hi \o Pad(BitsOf(lo), n)
        ELSE Inc(hi) \o Pad(BitsOf(lo - 2 ^ CHUNK), CHUNK)

\* long division of a numeral by a small divisor d: the quotient (one bit
\* per bit of the dividend) and the remainder
RECURSIVE LongDiv(_, _)
LongDiv(bits, d) ==
    IF Len(bits) <= CHUNK
    THEN [q |-> Pad(BitsOf(ValueOf(bits) \div d), Len(bits)), r |-> ValueOf(bits) % d]
    ELSE LET front == LongDiv(SubSeq(bits, 1, Len(bits) - CHUNK), d)
             x     == front.r * (2 ^ CHUNK) + ValueOf(SubSeq(bits, Len(bits) - CHUNK + 1, Len(bits)))
         IN  [q |-> front.q \o Pad(BitsOf(x \div d), CHUNK), r |-> x % d]

\* a // d on numerals
FloorDiv(a, d) == Trim(LongDiv(a, d).q)

\* the next CHUNK bits of r / d after the binary point (r < d) and the
\* remainder left after them
FracChunk(r, d) ==
    LET x == r * (2 ^ CHUNK)
    IN  [q |-> Pad(BitsOf(x \div d), CHUNK), r |-> x % d]

\* total_works / 20 (int / int in Python 3): the quotient correctly rounded
\* to a float, round-half-to-even.  The float is sig * 2^(-frac): a
\* significand of DBL_MANT_DIG bits and the number of its bits that lie after
\* the binary point (negative: that many zero bits follow the significand).
TrueDiv(a, d) ==
    LET ip     == LongDiv(a, d)
        int    == Trim(ip.q)
        f1     == FracChunk(ip.r, d)
        f2     == FracChunk(f1.r, d)
        f3     == FracChunk(f2.r, d)
        digits == int \o f1.q \o f2.q \o f3.q
        z      == Len(digits) - Len(Trim(digits))
        sig    == SubSeq(digits, z + 1, z + DBL_MANT_DIG)
        guard  == digits[z + DBL_MANT_DIG + 1]
        rest   == SubSeq(digits, z + DBL_MANT_DIG + 2, Len(digits))
        sticky == f3.r # 0 \/ \E i \in 1..Len(rest) : rest[i] = 1
        up     == guard = 1 /\ (sticky \/ sig[DBL_MANT_DIG] = 1)
    IN  IF Trim(a) = <<>> THEN [sig |-> <<>>, frac |-> 0]
        ELSE [sig  |-> IF up THEN Inc(sig) ELSE sig,
              frac |-> z + DBL_MANT_DIG - Len(int)]

\* math.ceil(x) of a float: an int
math_ceil(x) ==
    IF x.frac <= 0 THEN Trim(x.sig \o Zeros(0 - x.frac))
    ELSE LET n    == Len(x.sig) - x.frac
             int  == IF n > 0 THEN SubSeq(x.sig, 1, n) ELSE <<>>
             frac == IF n > 0 THEN SubSeq(x.sig, n + 1, Len(x.sig)) ELSE x.sig
         IN  IF \E i \in 1..Len(frac) : frac[i] = 1 THEN Trim(Inc(int)) ELSE Trim(int)

\* line 131: math.ceil(total_works / 20)
PageCountOf(total_works) == math_ceil(TrueDiv(total_works, PAGE_SIZE))

\* The responses to the page-1 request: a failed request, a bad status, an
\* empty body, or a page with its h3.heading (missing, "0 Found", "x - y of
\* N Works", or some other text); items is the number of li.work elements
\* of a page whose heading gives no count
PageOneResponses ==
    {[fetch |-> e] : e \in FetchResults \ {"ok"}}
    \cup {[fetch |-> "ok", status_code |-> 503]}
    \cup {[fetch |-> "ok", status_code |-> 200, empty |-> TRUE]}
    \cup {[fetch |-> "ok", status_code |-> 200, empty |-> FALSE, heading |-> "0 Found"]}
    \cup {[fetch |-> "ok", status_code |-> 200, empty |-> FALSE, heading |-> h, items |-> i] :
              h \in {"missing", "other"}, i \in {0, 1}}
    \cup {[fetch |-> "ok", status_code |-> 200, empty |-> FALSE, heading |-> "of N Works",
           total_works |-> n] : n \in {0, 1, PAGE_SIZE, PAGE_SIZE + 1, PAGE_SIZE * MaxPages}}

\* get_page_count: (page_count, error_type) for the response to the page-1 request
get_page_count(r) ==
    IF r.fetch = "Timeout" THEN <<-1, "timeout">>
    ELSE IF r.fetch = "RequestException" THEN <<-1, "network_error">>
    ELSE IF r.fetch = "Exception" THEN <<-1, "parse_error">>
    ELSE IF r.status_code # 200 THEN <<-1, "http_error">>
    ELSE IF r.empty THEN <<-1, "empty_response">>
    ELSE IF r.heading = "0 Found" THEN <<0, NONE>>
    ELSE IF r.heading = "of N Works"
         THEN <<ValueOf(PageCountOf(BitsOf(r.total_works))), NONE>>
    ELSE <<1, NONE>>

Min(a, b) == IF a < b THEN a ELSE b

\* random.randint(1, total_pages): no cap
RandomPages_NoCap(total_pages) == 1..total_pages

\* random.randint(1, min(total_pages, 200)): the pages it can return
RandomPages(total_pages) == 1..Min(total_pages, MAX_PAGE_CAP)

\* The responses to the request for the random page: work_blurbs is the
\* number of li.work elements, valid_works the works extracted from them
ItemResponses ==
    {[fetch |-> e] : e \in FetchResults \ {"ok"}}
    \cup {[fetch |-> "ok", status_code |-> 503]}
    \cup {[fetch |-> "ok", status_code |-> 200, empty |-> TRUE]}
    \cup {[fetch |-> "ok", status_code |-> 200, empty |-> FALSE, work_blurbs |-> 0,
           valid_works |-> {}]}
    \cup {[fetch |-> "ok", status_code |-> 200, empty |-> FALSE, work_blurbs |-> Cardinality(Works),
           valid_works |-> v] : v \in SUBSET Works}

\* fetch_random_work picking among all blurbs, valid or not
fetch_random_work_AnyBlurb(r) ==
    IF r.fetch = "Timeout" THEN {<<None, "timeout">>}
    ELSE IF r.fetch = "RequestException" THEN {<<None, "network_error">>}
    ELSE IF r.fetch = "Exception" THEN {<<None, "parse_error">>}
    ELSE IF r.status_code # 200 THEN {<<None, "http_error">>}
    ELSE IF r.empty THEN {<<None, "empty_response">>}
    ELSE IF r.work_blurbs = 0 THEN {<<None, "parse_error">>}
    ELSE {<<w, NONE>> : w \in Works}

\* fetch_random_work returning (None, NONE) when no blurb is valid
fetch_random_work_NoneOnEmpty(r) ==
    IF r.fetch = "Timeout" THEN {<<None, "timeout">>}
    ELSE IF r.fetch = "RequestException" THEN {<<None, "network_error">>}
    ELSE IF r.fetch = "Exception" THEN {<<None, "parse_error">>}
    ELSE IF r.status_code # 200 THEN {<<None, "http_error">>}
    ELSE IF r.empty THEN {<<None, "empty_response">>}
    ELSE IF r.valid_works = {} THEN {<<None, NONE>>}
    ELSE {<<w, NONE>> : w \in r.valid_works}

\* fetch_random_work: the (work, error_type) pairs it can return for a response;
\* valid_works holds the blurbs that passed the scraping checks
fetch_random_work(r) ==
    IF r.fetch = "Timeout" THEN {<<None, "timeout">>}
    ELSE IF r.fetch = "RequestException" THEN {<<None, "network_error">>}
    ELSE IF r.fetch = "Exception" THEN {<<None, "parse_error">>}
    ELSE IF r.status_code # 200 THEN {<<None, "http_error">>}
    ELSE IF r.empty THEN {<<None, "empty_response">>}
    ELSE IF r.work_blurbs = 0 THEN {<<None, "parse_error">>}
    ELSE IF r.valid_works = {} THEN {<<None, "parse_error">>}
    ELSE {<<w, NONE>> : w \in r.valid_works}

-----------------------------------------------------------------------------
(* get_random_work_with_fallback, one thread's call                         *)

\* The locals of a call that has not started (page_count -1 and the two error
\* types "none" stand for "not assigned yet")
Frame0 ==
    [key |-> NoneObj, page_count |-> -1, page_error |-> NONE, work |-> None,
     work_error |-> NONE, fallback_reason |-> None, cache |-> <<>>, off |-> 0,
     ret |-> NoneObj, exc |-> None, cache_reads |-> 0]

Result(result, source, stale, error, fallback_reason) ==
    [result |-> result, source |-> source, stale |-> stale, error |-> error,
     fallback_reason |-> fallback_reason]

LiveResult(work) == Result(work, "live", FALSE, None, None)
NoWorksResult == Result(None, "live", FALSE, NoWorksMessage, None)
CacheResult(work, stale, reason) == Result(work, "cache", stale, None, reason)
UnavailableResult_NoError(reason) == Result(None, None, FALSE, None, reason)
UnavailableResult(reason) == Result(None, None, FALSE, UnavailableMessage, reason)

\* The clock readings of a behaviour: the start, one TTL later, and the
\* first second after that
TimePoints == {0, DEFAULT_TTL_SECONDS, DEFAULT_TTL_SECONDS + 1}

Healthy ==
    /\ dirCreatable = TRUE
    /\ fileReadable = TRUE
    /\ fileWritable = TRUE

\* The store an earlier run of the service left behind: nothing (a fresh
\* installation has no cache directory), or the file set_cached_results wrote
\* on a live success
InitialStores ==
    {[dir |-> FALSE, file |-> FALSE, text |-> <<>>]}
    \cup {[dir |-> TRUE, file |-> TRUE,
           text |-> json_dump(<<[key |-> KeyOf(f), results |-> <<"w1">>, timestamp |-> 0]>>)] :
              f \in {g \in Filters : g.tags = <<>>}}

Init ==
    /\ now = 0
    /\ \E s \in InitialStores :
          /\ dirExists = s.dir
          /\ fileExists = s.file
          /\ content = s.text
    /\ Healthy
    /\ pc = [p \in Threads |-> "idle"]
    /\ fr = [p \in Threads |-> Frame0]
    /\ calls = 0
    /\ arg = NoneObj
    /\ res = NoneObj
    /\ ScraperIdle

Store == <<now, dirExists, dirCreatable, fileExists, fileReadable, fileWritable, content>>
Perms == <<dirCreatable, fileReadable, fileWritable>>

\* lines 264, 280, 289: where the page-count outcome sends the call
PageBranch_NoZeroCase(page_count, page_error) ==
    IF page_error = NONE /\ page_count > 0 THEN "LIVE_ITEM" ELSE "FALLBACK_CACHE"

PageBranch(page_count, page_error) ==
    IF page_error = NONE /\ page_count > 0 THEN "LIVE_ITEM"
    ELSE IF page_count = 0 THEN "done"
    ELSE "FALLBACK_CACHE"

\* lines 259-264, 280-291: a thread that is idle, or has handed back the
\* result or the exception of its last call, is called; it derives the key,
\* resolves the page count and branches
LIVE_PAGECOUNT(p) ==
    /\ pc[p] \in {"idle", "done", "raised"}
    /\ calls < MaxCalls
    /\ calls' = calls + 1
    /\ \E f \in Filters, r \in PageOneResponses :
          LET cache_key  == KeyOf(f)
              out        == get_page_count(r)
              page_count == out[1]
              page_error == out[2]
              base       == [Frame0 EXCEPT !.key = cache_key, !.page_count = page_count,
                                           !.page_error = page_error]
              branch     == PageBranch(page_count, page_error)
          IN  /\ pc' = [pc EXCEPT ![p] = branch]
              /\ IF branch = "LIVE_ITEM"
                 THEN fr' = [fr EXCEPT ![p] = base]
                 ELSE IF branch = "done"
                 THEN fr' = [fr EXCEPT ![p] = [base EXCEPT !.ret = NoWorksResult]]
                 ELSE fr' = [fr EXCEPT ![p] =
                                [base EXCEPT !.fallback_reason = _error_to_reason(page_error)]]
    /\ UNCHANGED <<Store, arg, res, ScraperVars>>

\* line 267: work_error == AO3ErrorType.NONE and work
LiveSucceeded_Never(work, work_error) == FALSE

LiveSucceeded(work, work_error) == work_error = NONE /\ work # None

\* lines 265-279: fetch a random page, pick a work, branch.  page_count is not
\* read after line 265: from there on the frame keeps only that it was positive.
LIVE_ITEM(p) ==
    /\ pc[p] = "LIVE_ITEM"
    /\ \E random_page \in RandomPages(fr[p].page_count), r \in ItemResponses :
       \E out \in fetch_random_work(r) :
          LET work       == out[1]
              work_error == out[2]
              base       == [fr[p] EXCEPT !.work = work, !.work_error = work_error,
                                          !.page_count = Min(fr[p].page_count, 1)]
          IN  IF LiveSucceeded(work, work_error)
              THEN /\ pc' = [pc EXCEPT ![p] = "SET_LOAD"]
                   /\ fr' = [fr EXCEPT ![p] = base]
              ELSE /\ pc' = [pc EXCEPT ![p] = "FALLBACK_CACHE"]
                   /\ fr' = [fr EXCEPT ![p] =
                                [base EXCEPT !.fallback_reason = _error_to_reason(work_error)]]
    /\ UNCHANGED <<Store, calls, arg, res, ScraperVars>>

\* set_cached_results, lines 92-96: load the file, put the new entry in the dict
SET_LOAD(p) ==
    /\ pc[p] = "SET_LOAD"
    /\ LET cache == _load_cache
           entry == [key |-> fr[p].key, results |-> <<fr[p].work>>, timestamp |-> now]
       IN  IF cache.kind = "dict"
           THEN /\ pc' = [pc EXCEPT ![p] = "ENSURE_DIR"]
                /\ fr' = [fr EXCEPT ![p].cache = DictSet(cache.val, entry)]
           ELSE \* a list does not take a str index
                /\ pc' = [pc EXCEPT ![p] = "raised"]
                /\ fr' = [fr EXCEPT ![p].exc = "TypeError"]
    /\ UNCHANGED <<Store, calls, arg, res, ScraperVars>>

\* _ensure_cache_dir, line 19: os.path.exists(CACHE_DIR)
ENSURE_DIR(p) ==
    /\ pc[p] = "ENSURE_DIR"
    /\ pc' = [pc EXCEPT ![p] = IF dirExists THEN "OPEN" ELSE "MAKEDIRS"]
    /\ UNCHANGED <<fr, Store, calls, arg, res, ScraperVars>>

\* _ensure_cache_dir, line 20: os.makedirs(CACHE_DIR), outside any try
MAKEDIRS(p) ==
    /\ pc[p] = "MAKEDIRS"
    /\ IF dirExists
       THEN /\ pc' = [pc EXCEPT ![p] = "raised"]
            /\ fr' = [fr EXCEPT ![p].exc = "FileExistsError"]
            /\ UNCHANGED dirExists
       ELSE IF ~dirCreatable
       THEN /\ pc' = [pc EXCEPT ![p] = "raised"]
            /\ fr' = [fr EXCEPT ![p].exc = "PermissionError"]
            /\ UNCHANGED dirExists
       ELSE /\ pc' = [pc EXCEPT ![p] = "OPEN"]
            /\ dirExists' = TRUE
            /\ UNCHANGED fr
    /\ UNCHANGED <<now, fileExists, content, Perms, calls, arg, res, ScraperVars>>

\* _save_cache, line 52: open(CACHE_FILE, 'w') truncates the file; an IOError
\* is swallowed, set_cached_results returns and the live result is returned
OPEN(p) ==
    /\ pc[p] = "OPEN"
    /\ IF fileWritable
       THEN /\ fileExists' = TRUE
            /\ content' = <<>>
            /\ pc' = [pc EXCEPT ![p] = "WRITE"]
            /\ fr' = [fr EXCEPT ![p].off = 0]
       ELSE /\ pc' = [pc EXCEPT ![p] = "done"]
            /\ fr' = [fr EXCEPT ![p] = [@ EXCEPT !.cache = <<>>, !.ret = LiveResult(fr[p].work)]]
            /\ UNCHANGED <<fileExists, content>>
    /\ UNCHANGED <<now, dirExists, Perms, calls, arg, res, ScraperVars>>

\* _save_cache, line 53: json.dump writes the text in one or several flushes at
\* this file object's own offset; after the last one the file is closed and
\* lines 270-276 return the live result
WRITE(p) ==
    /\ pc[p] = "WRITE"
    /\ LET text == json_dump(fr[p].cache)
           off  == fr[p].off
       IN  \E n \in 1..(Len(text) - off) :
              /\ content' = WriteAt(content, off, SubSeq(text, off + 1, off + n))
              /\ IF off + n = Len(text)
                 THEN /\ pc' = [pc EXCEPT ![p] = "done"]
                      /\ fr' = [fr EXCEPT ![p] = [@ EXCEPT !.cache = <<>>, !.off = 0,
                                                           !.ret = LiveResult(fr[p].work)]]
                 ELSE /\ pc' = pc
                      /\ fr' = [fr EXCEPT ![p].off = off + n]
    /\ UNCHANGED <<now, dirExists, fileExists, Perms, calls, arg, res, ScraperVars>>

\* lines 294-313: get_cached_results(cache_key), then the cached or the
\* unavailable result
FALLBACK_CACHE(p) ==
    /\ pc[p] = "FALLBACK_CACHE"
    /\ LET cache  == _load_cache
           cached == CachedOf(cache.val, fr[p].key, now)
           base   == [fr[p] EXCEPT !.cache_reads = 1]
       IN  IF cache.kind # "dict"
           THEN \* cache.get on a list
                /\ pc' = [pc EXCEPT ![p] = "raised"]
                /\ fr' = [fr EXCEPT ![p] = [base EXCEPT !.exc = "AttributeError"]]
           ELSE IF cached # NoneObj /\ cached.results # <<>>
           THEN /\ pc' = [pc EXCEPT ![p] = "done"]
                /\ \E i \in 1..Len(cached.results) :
                      fr' = [fr EXCEPT ![p] = [base EXCEPT
                                !.ret = CacheResult(cached.results[i], cached.stale, fr[p].fallback_reason)]]
           ELSE /\ pc' = [pc EXCEPT ![p] = "done"]
                /\ fr' = [fr EXCEPT ![p] = [base EXCEPT !.ret = UnavailableResult(fr[p].fallback_reason)]]
    /\ UNCHANGED <<Store, calls, arg, res, ScraperVars>>

\* time passes
Tick ==
    /\ \E t \in TimePoints :
          /\ t > now
          /\ now' = t
    /\ UNCHANGED <<dirExists, fileExists, content, Perms, pc, fr, calls, arg, res, ScraperVars>>

Next ==
    \/ \E p \in Threads : LIVE_PAGECOUNT(p)
    \/ \E p \in Threads : LIVE_ITEM(p)
    \/ \E p \in Threads : SET_LOAD(p)
    \/ \E p \in Threads : ENSURE_DIR(p)
    \/ \E p \in Threads : MAKEDIRS(p)
    \/ \E p \in Threads : OPEN(p)
    \/ \E p \in Threads : WRITE(p)
    \/ \E p \in Threads : FALLBACK_CACHE(p)
    \/ Tick

Spec == Init /\ [][Next]_vars

-----------------------------------------------------------------------------
(* The service started on a store in any condition: besides the stores an   *)
(* earlier run leaves behind, a directory that cannot be created, a file    *)
(* that cannot be read or written, and a file whose content is empty,       *)
(* truncated, or a JSON document that is not an object.                     *)

StoreCondition(dir, creatable, file, readable, writable, text) ==
    [dir |-> dir, creatable |-> creatable, file |-> file, readable |-> readable,
     writable |-> writable, text |-> text]

SomeStoredText == json_dump(<<[key |-> CHOOSE k \in Keys : k.tags = <<>>,
                               results |-> <<"w1">>, timestamp |-> 0]>>)

StorageConditions ==
    {StoreCondition(s.dir, TRUE, s.file, TRUE, TRUE, s.text) : s \in InitialStores}
    \cup {StoreCondition(FALSE, FALSE, FALSE, TRUE, TRUE, <<>>),
          StoreCondition(TRUE, TRUE, TRUE, TRUE, TRUE, <<LBRACKET, RBRACKET>>),
          StoreCondition(TRUE, TRUE, TRUE, TRUE, TRUE, <<>>),
          StoreCondition(TRUE, TRUE, TRUE, TRUE, TRUE, <<LBRACE>>),
          StoreCondition(TRUE, TRUE, TRUE, TRUE, FALSE, SomeStoredText),
          StoreCondition(TRUE, TRUE, TRUE, FALSE, TRUE, SomeStoredText)}

InitStorage ==
    /\ now = 0
    /\ \E s \in StorageConditions :
          /\ dirExists = s.dir
          /\ dirCreatable = s.creatable
          /\ fileExists = s.file
          /\ fileReadable = s.readable
          /\ fileWritable = s.writable
          /\ content = s.text
    /\ pc = [p \in Threads |-> "idle"]
    /\ fr = [p \in Threads |-> Frame0]
    /\ calls = 0
    /\ arg = NoneObj
    /\ res = NoneObj
    /\ ScraperIdle

SpecStorage == InitStorage /\ [][Next]_vars

-----------------------------------------------------------------------------
(* Vocabulary of the properties                                             *)

\* the entry the cache file holds for key k (NoneObj when it holds none)
Held(k) ==
    LET v == LoadOf(fileExists, fileReadable, content)
    IN  IF v.kind = "dict" THEN DictGet(v.val, k) ELSE NoneObj

\* the reason string each kind of failure is documented to give
ExpectedReason(kind) ==
    CASE kind = "timeout"        -> "ao3_timeout"
      [] kind = "empty_response" -> "ao3_empty_response"
      [] kind = "network_error"  -> "network_error"
      [] kind = "http_error"     -> "ao3_http_error"
      [] kind = "parse_error"    -> "ao3_parse_error"

\* the error type of the live step that failed in this call ("none": no step failed)
FailedKind(f) == IF f.page_error # NONE THEN f.page_error ELSE f.work_error

\* thread p takes a step
Acts(p) == pc'[p] # pc[p] \/ fr'[p] # fr[p]

Returned(p) == pc[p] = "done"

ItemPresent(r) == r.result # None /\ r.source \in {"live", "cache"} /\ r.error = None
ItemAbsent(r) == r.result = None /\ r.error # None /\ r.error # ""

-----------------------------------------------------------------------------
\* C1: every result get_random_work_with_fallback returns either carries an
\* item with source "live" or "cache" and no error, or carries no item and a
\* non-empty error message; never both, never neither.
C1_ResultShape ==
    \A p \in Threads :
        Returned(p) =>
            /\ ItemPresent(fr[p].ret) \/ ItemAbsent(fr[p].ret)
            /\ ~(ItemPresent(fr[p].ret) /\ ItemAbsent(fr[p].ret))

\* one call has returned a cached item and another the unavailable error
C1_Witness ==
    \E p, q \in Threads :
        /\ Returned(p) /\ fr[p].ret.source = "cache" /\ fr[p].ret.result \in Works
        /\ Returned(q) /\ fr[q].ret.result = None /\ fr[q].ret.error = UnavailableMessage

\* C2: when a live step failed and the cache file holds an entry with results
\* for the key, the fallback step returns source "cache", one of the stored
\* items, stale exactly when the entry is older than the TTL, no error, and
\* the reason string of the kind that failed.
C2_DegradedSuccess ==
    [][\A p \in Threads :
          (pc[p] = "FALLBACK_CACHE" /\ Acts(p)
             /\ Held(fr[p].key) # NoneObj /\ Held(fr[p].key).results # <<>>)
          => /\ pc'[p] = "done"
             /\ FailedKind(fr[p]) \in FailureKinds
             /\ fr'[p].ret.source = "cache"
             /\ \E i \in 1..Len(Held(fr[p].key).results) :
                   fr'[p].ret.result = Held(fr[p].key).results[i]
             /\ fr'[p].ret.stale = (now - Held(fr[p].key).timestamp > DEFAULT_TTL_SECONDS)
             /\ fr'[p].ret.error = None
             /\ fr'[p].ret.fallback_reason = ExpectedReason(FailedKind(fr[p]))]_vars

\* a timeout was answered from an entry older than the TTL, and another failure
\* from an entry exactly one TTL old
C2_Witness ==
    \E p, q \in Threads :
        /\ Returned(p) /\ fr[p].ret.source = "cache" /\ fr[p].ret.stale
        /\ fr[p].ret.fallback_reason = "ao3_timeout" /\ Held(fr[p].key) # NoneObj
        /\ Returned(q) /\ fr[q].ret.source = "cache" /\ ~fr[q].ret.stale
        /\ fr[q].work_error # NONE

\* the full-failure result of a call whose live step failed
FullFailure(f) ==
    /\ f.ret.result = None
    /\ f.ret.source = None
    /\ f.ret.error = UnavailableMessage
    /\ FailedKind(f) \in FailureKinds
    /\ f.ret.fallback_reason = ExpectedReason(FailedKind(f))

LiveSuccess(f) ==
    f.page_error = NONE /\ f.page_count > 0 /\ f.work_error = NONE /\ f.work # None

\* C4: get_cached_results is called only after a live step failed; when the
\* page count is positive and the item fetch succeeds, the call returns the
\* live-fetched item without any cache lookup, whatever the cache holds.
C4_CacheOnlyAfterFailure ==
    \A p \in Threads :
        /\ fr[p].cache_reads > 0 => FailedKind(fr[p]) \in FailureKinds
        /\ LiveSuccess(fr[p]) => pc[p] \notin {"FALLBACK_CACHE"}
        /\ (Returned(p) /\ LiveSuccess(fr[p]))
              => /\ fr[p].cache_reads = 0
                 /\ fr[p].ret.source = "live"
                 /\ fr[p].ret.result = fr[p].work

\* the cache answered w1 for a key, then a live fetch for that key returned w2
C4_Witness ==
    \E p, q \in Threads :
        /\ Returned(q) /\ fr[q].ret.source = "cache" /\ fr[q].ret.result = "w1"
        /\ Returned(p) /\ LiveSuccess(fr[p]) /\ fr[p].key = fr[q].key
        /\ fr[p].ret.result = "w2" /\ fr[p].cache_reads = 0

\* the page-count step found no works
ZeroResults(f) == f.page_count = 0 /\ f.page_error = NONE

\* C6: when the page count is 0 with no error the call ends at once with no
\* item, the "no works found" error and no fallback reason; no item fetch, no
\* cache lookup, and the cache directory and file are left as they were.
C6_ZeroResultsTerminal ==
    [][\A p \in Threads :
          ((Acts(p) \/ calls' # calls) /\ ZeroResults(fr'[p]))
          => /\ pc'[p] = "done"
             /\ fr'[p].ret.result = None
             /\ fr'[p].ret.error = NoWorksMessage
             /\ fr'[p].ret.fallback_reason = None
             /\ fr'[p].work = None /\ fr'[p].work_error = NONE
             /\ fr'[p].cache_reads = 0
             /\ <<dirExists, fileExists, content>>' = <<dirExists, fileExists, content>>]_vars

\* a call for a key the cache holds an entry for ended with "no works found"
C6_Witness ==
    \E p \in Threads :
        /\ Returned(p) /\ ZeroResults(fr[p]) /\ fr[p].ret.error = NoWorksMessage
        /\ Held(fr[p].key) # NoneObj

\* the positions of a call inside set_cached_results
InSet == {"SET_LOAD", "ENSURE_DIR", "MAKEDIRS", "OPEN", "WRITE"}

\* C5: a live success writes through: the call returns the item with source
\* "live", stale false, no error and no fallback reason, and when it returns
\* the cache file holds exactly [item] for the key.
C5_LiveWriteThrough ==
    [][\A p \in Threads :
          (pc[p] \in InSet /\ Acts(p))
          => /\ pc'[p] # "raised"
             /\ pc'[p] = "done"
                  => /\ fr'[p].ret = Result(fr[p].work, "live", FALSE, None, None)
                     /\ Held(fr[p].key)' # NoneObj
                     /\ Held(fr[p].key)'.results = <<fr[p].work>>]_vars

\* C7: set_cached_results never raises, whatever the store's condition and
\* however it interleaves with other cache calls, so the write-through of a
\* live success never ends the call with an exception.
C7_SetNeverRaises ==
    \A p \in Threads :
        ~(pc[p] = "raised" /\ fr[p].exc \in {"FileExistsError", "PermissionError", "TypeError"})

\* the cache file is missing, unreadable or does not hold a JSON object
StoreUnusable == ~fileExists \/ ~fileReadable \/ json_load(content).kind # "dict"

\* C8: get_cached_results fails open: on a store that is missing, unreadable
\* or not a JSON object it returns None and never raises, so the fallback
\* ends with the unavailable result.
C8_GetFailsOpen ==
    [][\A p \in Threads :
          (pc[p] = "FALLBACK_CACHE" /\ Acts(p) /\ StoreUnusable)
          => /\ pc'[p] = "done"
             /\ fr'[p].ret.result = None
             /\ fr'[p].ret.source = None]_vars

\* p's call has returned from its write-through
SetReturned(p) == Returned(p) /\ fr[p].ret.source = "live" /\ fr[p].ret.result # None

\* C9: once set_cached_results(k, r) has returned and no other set on k is
\* under way or has returned, get_cached_results(k) gives exactly r, stale
\* exactly when the entry's age exceeds the TTL, at every age.  (With at most
\* two calls the other thread's frame is the whole history of the store.)
C9_GetAfterSet ==
    \A p \in Threads :
        (/\ calls <= 2
         /\ SetReturned(p)
         /\ \A q \in Threads \ {p} :
               fr[q].key = fr[p].key => (pc[q] \notin InSet /\ ~SetReturned(q)))
        => LET cached == CachedOf(_load_cache.val, fr[p].key, now)
           IN  /\ cached # NoneObj
               /\ cached.results = <<fr[p].ret.result>>
               /\ cached.stale = (cached.age_seconds > DEFAULT_TTL_SECONDS)

\* C10: a get_cached_results(k) that overlaps a write of another key by a
\* thread that loaded an entry for k (k held that entry, and the write keeps
\* it) returns that entry: never "no entry".  (With at most two calls the
\* writer's frame is the whole history of the store.)
C10_AtomicRead ==
    [][\A p \in Threads : \A q \in Threads \ {p} :
          (/\ calls <= 2
           /\ pc[p] = "FALLBACK_CACHE" /\ Acts(p)
           /\ pc[q] = "WRITE" /\ fr[q].key # fr[p].key
           /\ DictGet(fr[q].cache, fr[p].key) # NoneObj)
          => /\ pc'[p] = "done"
             /\ fr'[p].ret.source = "cache"
             /\ <<fr'[p].ret.result>> = DictGet(fr[q].cache, fr[p].key).results]_vars

-----------------------------------------------------------------------------
\* C11: when two calls of set_cached_results for the same key have both
\* returned, the cache file is a readable JSON object and the entry it holds
\* for the key is the results of one of the two calls: never corrupted, never
\* missing.  (With at most two calls the two frames are the store's history.)
C11_LastWriterWins ==
    \A p \in Threads : \A q \in Threads \ {p} :
        (calls <= 2 /\ SetReturned(p) /\ SetReturned(q) /\ fr[p].key = fr[q].key)
        => /\ json_load(content).kind = "dict"
           /\ Held(fr[p].key) # NoneObj
           /\ Held(fr[p].key).results \in {<<fr[p].work>>, <<fr[q].work>>}

\* C19: when two live successes on different keys have both returned, the
\* cache file holds the entry of each of them: the write of one key leaves
\* the entry of the other key in place.
C19_NoLostUpdate ==
    \A p \in Threads : \A q \in Threads \ {p} :
        (calls <= 2 /\ SetReturned(p) /\ SetReturned(q) /\ fr[p].key # fr[q].key)
        => /\ Held(fr[p].key) # NoneObj
           /\ Held(fr[p].key).results = <<fr[p].work>>
           /\ Held(fr[q].key) # NoneObj
           /\ Held(fr[q].key).results = <<fr[q].work>>

-----------------------------------------------------------------------------
(* Functions applied on their own.  arg holds the name of the function and  *)
(* the arguments it is given, res what it returned.  No thread runs and the *)
(* store is not touched.                                                    *)

\* the strings passed as a tag or as a fandom
KeyStrings ==
    { <<"a">>, <<"A">>, <<" ", "a">>, <<"A", " ">>, <<"b">>, <<"a", "b">>, <<"A", "b">>,
      <<"a", " ", "b">> }

\* the tag lists passed: up to two tags
TagLists ==
    {<<>>} \cup {<<s>> : s \in KeyStrings} \cup {<<s, t>> : s, t \in KeyStrings}

\* the categories and fandoms passed with a pair of tag lists (categories are
\* written with the characters of the model's alphabet, see Filters)
KeyContexts ==
    { [categories |-> << <<"a">>, <<"b">> >>, categories2 |-> << <<"b">>, <<"a">> >>,
       fandom |-> <<"A", " ">>, fandom2 |-> <<" ", "a">>],
      [categories |-> <<>>, categories2 |-> <<>>, fandom |-> <<>>, fandom2 |-> <<>>],
      [categories |-> << <<"a">> >>, categories2 |-> << <<"a">>, <<"a">> >>,
       fandom |-> <<"a">>, fandom2 |-> <<"a">>],
      [categories |-> << <<"a">> >>, categories2 |-> << <<"b">> >>,
       fandom |-> <<"a">>, fandom2 |-> <<"a", "b">>] }

\* get_cache_key applied to two filters
KeyArgs ==
    {[fn |-> "get_cache_key", tags |-> t, tags2 |-> u,
      categories |-> c.categories, categories2 |-> c.categories2,
      fandom |-> c.fandom, fandom2 |-> c.fandom2] :
        t \in TagLists, u \in TagLists, c \in KeyContexts}

GET_CACHE_KEY ==
    /\ arg.fn = "get_cache_key"
    /\ res = NoneObj
    /\ res' = [key  |-> get_cache_key(arg.tags, arg.categories, arg.fandom),
               key2 |-> get_cache_key(arg.tags2, arg.categories2, arg.fandom2)]
    /\ UNCHANGED <<Store, pc, fr, calls, arg, ScraperVars>>

\* browser_scraper.py line 149: (total_works + 19) // 20
scraper_total_pages(total_works) == FloorDiv(AddSmall(total_works, PAGE_SIZE - 1), PAGE_SIZE)

\* browser_scraper.py line 156: min(total_pages, 100)
SCRAPER_PAGE_CAP == 100

\* the total counts a heading can state: small ones, and ones beyond the
\* integers a float holds exactly (PAGE_SIZE * 2^e + r)
TotalCounts ==
    {BitsOf(n) : n \in {0, 1, PAGE_SIZE - 1, PAGE_SIZE, PAGE_SIZE + 1, 2 * PAGE_SIZE,
                        2 * PAGE_SIZE + 1, PAGE_SIZE * MAX_PAGE_CAP + 1}}
    \cup {AddSmall(BitsOf(PAGE_SIZE) \o Zeros(e), r) :
              e \in {30, DBL_MANT_DIG - 5, DBL_MANT_DIG - 4, DBL_MANT_DIG - 1, DBL_MANT_DIG},
              r \in {0, 1, PAGE_SIZE \div 2, PAGE_SIZE - 1}}

\* line 131 and the scraper's line 149 applied to a total count
PageCountArgs == {[fn |-> "total_pages", total_works |-> t] : t \in TotalCounts}

TOTAL_PAGES ==
    /\ arg.fn = "total_pages"
    /\ res = NoneObj
    /\ res' = [service |-> PageCountOf(arg.total_works),
               scraper |-> scraper_total_pages(arg.total_works)]
    /\ UNCHANGED <<Store, pc, fr, calls, arg, ScraperVars>>

\* The live part of one call of get_random_work_with_fallback, with the two
\* responses it gets written down: the page-1 responses of the service, and
\* pages whose count is at and beyond the page cap
LivePageOne ==
    PageOneResponses
    \cup {[fetch |-> "ok", status_code |-> 200, empty |-> FALSE, heading |-> "of N Works",
           total_works |-> n] :
              n \in {PAGE_SIZE * MAX_PAGE_CAP, PAGE_SIZE * MAX_PAGE_CAP + 1,
                     PAGE_SIZE * (MAX_PAGE_CAP + MaxPages)}}

LiveArgs ==
    {[fn |-> "get_random_work_with_fallback", page_one |-> r1, item |-> r2] :
        r1 \in LivePageOne, r2 \in ItemResponses}

\* lines 262-264, 280-291: the page count and where it sends the call
CALL_PAGECOUNT ==
    /\ arg.fn = "get_random_work_with_fallback"
    /\ res = NoneObj
    /\ LET out        == get_page_count(arg.page_one)
           page_count == out[1]
           page_error == out[2]
           branch     == PageBranch(page_count, page_error)
       IN  res' = [at |-> branch, page_count |-> page_count, page_error |-> page_error,
                   random_page |-> 0, work |-> None, work_error |-> NONE,
                   fallback_reason |-> IF branch = "FALLBACK_CACHE"
                                       THEN _error_to_reason(page_error) ELSE None]
    /\ UNCHANGED <<Store, pc, fr, calls, arg, ScraperVars>>

\* lines 265-279 with lines 155-156: the random page, the work and where the
\* outcome sends the call
CALL_ITEM ==
    /\ arg.fn = "get_random_work_with_fallback"
    /\ res # NoneObj
    /\ res.at = "LIVE_ITEM"
    /\ \E random_page \in RandomPages(res.page_count) :
       \E out \in fetch_random_work(arg.item) :
          LET work       == out[1]
              work_error == out[2]
          IN  res' = [res EXCEPT
                        !.at = IF LiveSucceeded(work, work_error) THEN "SET_LOAD"
                               ELSE "FALLBACK_CACHE",
                        !.random_page = random_page, !.work = work, !.work_error = work_error,
                        !.fallback_reason = IF LiveSucceeded(work, work_error) THEN None
                                            ELSE _error_to_reason(work_error)]
    /\ UNCHANGED <<Store, pc, fr, calls, arg, ScraperVars>>

\* browser_scraper.py lines 141-157: the scraper's page count and random page
\* for a heading that is not "0 Found"
ScraperArgs ==
    {[fn |-> "_search_ao3_async", heading |-> h, total_works |-> n] :
        h \in {"missing", "other", "of N Works"},
        n \in {1, PAGE_SIZE, PAGE_SIZE + 1, PAGE_SIZE * SCRAPER_PAGE_CAP,
               PAGE_SIZE * SCRAPER_PAGE_CAP + 1, PAGE_SIZE * (SCRAPER_PAGE_CAP + MaxPages)}}

scraper_random_pages(total_pages) == 1..Min(total_pages, SCRAPER_PAGE_CAP)

SCRAPER_PAGE ==
    /\ arg.fn = "_search_ao3_async"
    /\ res = NoneObj
    /\ LET total_pages == IF arg.heading = "of N Works"
                          THEN ValueOf(scraper_total_pages(BitsOf(arg.total_works)))
                          ELSE 1
       IN  \E random_page \in scraper_random_pages(total_pages) :
              res' = [total_pages |-> total_pages, random_page |-> random_page]
    /\ UNCHANGED <<Store, pc, fr, calls, arg, ScraperVars>>

FnArgs == KeyArgs \cup PageCountArgs \cup LiveArgs \cup ScraperArgs

InitFn ==
    /\ now = 0
    /\ dirExists = FALSE
    /\ fileExists = FALSE
    /\ content = <<>>
    /\ Healthy
    /\ pc = [p \in Threads |-> "idle"]
    /\ fr = [p \in Threads |-> Frame0]
    /\ calls = 0
    /\ arg \in FnArgs
    /\ res = NoneObj
    /\ ScraperIdle

NextFn ==
    \/ GET_CACHE_KEY
    \/ TOTAL_PAGES
    \/ CALL_PAGECOUNT
    \/ CALL_ITEM
    \/ SCRAPER_PAGE

SpecFn == InitFn /\ [][NextFn]_vars

-----------------------------------------------------------------------------
(* What "the same filter" means, stated on the characters: two strings are  *)
(* the same when they are renderings of one core string, a rendering being  *)
(* the core with any letter in either case and with spaces around it.       *)

SwapCase(c) == IF c = "a" THEN "A" ELSE IF c = "A" THEN "a" ELSE c

Cores == {s \in KeyStrings \cup {<<>>} : s = <<>> \/ (s[1] # " " /\ s[Len(s)] # " ")}

Rendering(s, c) ==
    \E i \in 0..Len(s) : \E j \in 0..Len(s) :
        /\ Len(s) = i + Len(c) + j
        /\ \A k \in 1..i : s[k] = " "
        /\ \A k \in 1..j : s[Len(s) - k + 1] = " "
        /\ \A k \in 1..Len(c) : s[i + k] = c[k] \/ s[i + k] = SwapCase(c[k])

SameString(s, t) == \E c \in Cores : Rendering(s, c) /\ Rendering(t, c)

\* l2 is l1 reordered, each element replaced by an equivalent one
Reordered(l1, l2, Same(_, _)) ==
    /\ Len(l1) = Len(l2)
    /\ \E pi \in Permutations(1..Len(l1)) : \A i \in 1..Len(l1) : Same(l1[i], l2[pi[i]])

\* l1 and l2 have the same elements, however often each is repeated
SetEqual(l1, l2, Same(_, _)) ==
    /\ \A i \in 1..Len(l1) : \E j \in 1..Len(l2) : Same(l1[i], l2[j])
    /\ \A j \in 1..Len(l2) : \E i \in 1..Len(l1) : Same(l1[i], l2[j])

Identical(s, t) == s = t

KeysComputed == arg.fn = "get_cache_key" /\ res # NoneObj

\* C12: get_cache_key gives the same key to two filters that differ only in
\* the order of the tags and of the categories and in the letter case and
\* surrounding whitespace of the tags and the fandom; empty tags, categories
\* or fandom give a key with that part empty.
C12_KeyInvariance ==
    KeysComputed =>
        /\ (/\ Reordered(arg.tags, arg.tags2, SameString)
            /\ Reordered(arg.categories, arg.categories2, Identical)
            /\ SameString(arg.fandom, arg.fandom2))
           => res.key = res.key2
        /\ arg.tags = <<>> => res.key.tags = <<>>
        /\ arg.categories = <<>> => res.key.categories = <<>>
        /\ arg.fandom = <<>> => res.key.fandom = <<>>

\* two tags, two categories and the fandom given in the other order, case and
\* spacing got one key; so did the filter with every part empty
C12_Witness ==
    /\ KeysComputed
    /\ \/ /\ arg.tags = << <<"a", "b">>, <<"A", " ">> >>
          /\ arg.tags2 = << <<" ", "a">>, <<"A", "b">> >>
          /\ arg.categories = << <<"a">>, <<"b">> >>
          /\ arg.categories2 = << <<"b">>, <<"a">> >>
          /\ arg.fandom = <<"A", " ">> /\ arg.fandom2 = <<" ", "a">>
          /\ res.key = res.key2
          /\ res.key.tags = << <<"a">>, <<"a", "b">> >>
       \/ /\ arg.tags = <<>> /\ arg.tags2 = <<>> /\ arg.categories = <<>> /\ arg.fandom = <<>>
          /\ res.key = [tags |-> <<>>, categories |-> <<>>, fandom |-> <<>>]

\* C13: two filters whose tags and categories are equal as sets after
\* normalization (order, case and repetitions set aside) and whose fandoms
\* are the same get identical keys.
C13_SetEqualKeys ==
    (/\ KeysComputed
     /\ SetEqual(arg.tags, arg.tags2, SameString)
     /\ SetEqual(arg.categories, arg.categories2, Identical)
     /\ SameString(arg.fandom, arg.fandom2))
    => res.key = res.key2

-----------------------------------------------------------------------------
\* the exact integer ceiling of total_works / PAGE_SIZE
ExactCeil(total_works) ==
    LET d == LongDiv(total_works, PAGE_SIZE)
    IN  IF d.r = 0 THEN Trim(d.q) ELSE Trim(Inc(d.q))

LiveCall == arg.fn = "get_random_work_with_fallback" /\ res # NoneObj

\* a page-1 response the functions get to parse: fetched, status 200, not empty
Parsed(r) == r.fetch = "ok" /\ r.status_code = 200 /\ ~r.empty

\* C14: for every total count T >= 1 the page count of get_page_count and of
\* the browser scraper is the exact integer ceiling of T / 20; a page that
\* reports zero results gives page count 0 with no error and ends the call.
C14_ExactCeiling ==
    /\ (arg.fn = "total_pages" /\ res # NoneObj /\ Trim(arg.total_works) # <<>>)
       => /\ res.service = ExactCeil(arg.total_works)
          /\ res.scraper = ExactCeil(arg.total_works)
    /\ (/\ LiveCall
        /\ Parsed(arg.page_one)
        /\ \/ arg.page_one.heading = "0 Found"
           \/ arg.page_one.heading = "of N Works" /\ arg.page_one.total_works = 0)
       => /\ res.page_count = 0
          /\ res.page_error = NONE
          /\ res.at = "done"

\* C15: the page picked for the item fetch lies between 1 and the smaller of
\* the page count and the cap (200 in fetch_random_work, 100 in the browser
\* scraper), and the item fetch is reached only with a page count of 1 or more.
C15_PageWithinCap ==
    /\ LiveCall
       => /\ res.at = "LIVE_ITEM" => res.page_count >= 1
          /\ res.random_page # 0
             => /\ res.page_count >= 1
                /\ 1 <= res.random_page
                /\ res.random_page <= res.page_count
                /\ res.random_page <= MAX_PAGE_CAP
    /\ (arg.fn = "_search_ao3_async" /\ res # NoneObj)
       => /\ 1 <= res.random_page
          /\ res.random_page <= res.total_pages
          /\ res.random_page <= SCRAPER_PAGE_CAP

\* with more pages than the cap, the last page the cap allows was picked
C15_Witness ==
    /\ LiveCall
    /\ res.page_count > MAX_PAGE_CAP
    /\ res.random_page = MAX_PAGE_CAP

\* C16: a parsed page 1 with neither the zero-results marker nor a count gives
\* page count 1 only when it holds at least one result item; with no item it
\* is a parse error and no item page is fetched.
C16_DefaultOnlyWithItems ==
    (/\ LiveCall
     /\ Parsed(arg.page_one)
     /\ arg.page_one.heading \in {"missing", "other"})
    => IF arg.page_one.items >= 1
       THEN res.page_count = 1 /\ res.page_error = NONE
       ELSE /\ res.page_error = "parse_error"
            /\ res.at # "LIVE_ITEM"
            /\ res.random_page = 0

\* C18: an item page that yields no extractable item is a parse error and
\* sends the call to the cache fallback with reason "ao3_parse_error"; a
\* successful item fetch returns one of the valid items of the page.
C18_ItemParseError ==
    (LiveCall /\ res.random_page # 0)
    => /\ (Parsed(arg.item) /\ arg.item.valid_works = {})
          => /\ res.work = None
             /\ res.work_error = "parse_error"
             /\ res.at = "FALLBACK_CACHE"
             /\ res.fallback_reason = "ao3_parse_error"
       /\ res.work_error = NONE
          => /\ Parsed(arg.item)
             /\ res.work \in arg.item.valid_works
             /\ res.at = "SET_LOAD"

\* a page with blurbs none of which is a valid work went to the fallback as a
\* parse error
C18_Witness ==
    /\ LiveCall
    /\ res.random_page # 0
    /\ Parsed(arg.item)
    /\ arg.item.work_blurbs > 0
    /\ arg.item.valid_works = {}
    /\ res.at = "FALLBACK_CACHE"
    /\ res.fallback_reason = "ao3_parse_error"

-----------------------------------------------------------------------------
\* the positions a call can move to from position s when it makes a single
\* pass: the page count, then the item page or the cache lookup or the end,
\* then the write-through or the cache lookup, then the result
After(s) ==
    CASE s \in {"idle", "done", "raised"} -> {"LIVE_ITEM", "FALLBACK_CACHE", "done"}
      [] s = "LIVE_ITEM"      -> {"SET_LOAD", "FALLBACK_CACHE"}
      [] s = "SET_LOAD"       -> {"ENSURE_DIR"}
      [] s = "ENSURE_DIR"     -> {"MAKEDIRS", "OPEN"}
      [] s = "MAKEDIRS"       -> {"OPEN"}
      [] s = "OPEN"           -> {"WRITE", "done"}
      [] s = "WRITE"          -> {"WRITE", "done"}
      [] s = "FALLBACK_CACHE" -> {"done"}

\* p's step is one step of a single pass
PassStep(p) ==
    /\ pc'[p] \in After(pc[p])
    /\ (calls' = calls + 1) <=> pc[p] \in {"idle", "done", "raised"}
    /\ pc'[p] = "LIVE_ITEM" => fr'[p].page_error = NONE /\ fr'[p].page_count > 0
    /\ (pc[p] = "WRITE" /\ pc'[p] = "WRITE") => fr'[p].off > fr[p].off

\* C17: every call is a single pass that ends in one result: one page-count
\* fetch at its start, at most one item fetch and only after a page count
\* above 0, no step taken twice and no way back to a live step after a
\* failure or after the cache lookup.
C17_SinglePass ==
    [][\A p \in Threads :
          Acts(p)
          => /\ PassStep(p)
             /\ pc'[p] = "done" => fr'[p].ret # NoneObj]_vars

\* the single pass, when an exception is counted as a way for the call to end
SinglePassOrRaise ==
    [][\A p \in Threads :
          Acts(p) => \/ PassStep(p)
                     \/ pc'[p] = "raised" /\ pc[p] \in {"SET_LOAD", "MAKEDIRS", "FALLBACK_CACHE"}]_vars

\* the reason strings of the five kinds of failure
KindReasons == {ExpectedReason(k) : k \in FailureKinds}

\* C20: in every result returned, fallback_reason is None exactly when the
\* source is "live", and otherwise is the reason string of one of the five
\* kinds of failure; "unknown_error" is never given, _error_to_reason being
\* never applied to the kind NONE.
C20_ReasonIffNotLive ==
    \A p \in Threads :
        /\ fr[p].fallback_reason # "unknown_error"
        /\ Returned(p)
           => /\ (fr[p].ret.fallback_reason = None) <=> (fr[p].ret.source = "live")
              /\ fr[p].ret.fallback_reason # None
                 => /\ fr[p].ret.fallback_reason \in KindReasons
                    /\ FailedKind(fr[p]) \in FailureKinds
                    /\ fr[p].ret.fallback_reason = ExpectedReason(FailedKind(fr[p]))

\* one call returned "no works found" from the live source without a reason,
\* the other a cached work with the reason of a parse error at the item page
C20_Witness ==
    \E p, q \in Threads :
        /\ Returned(p) /\ fr[p].ret = NoWorksResult
        /\ Returned(q) /\ fr[q].ret.source = "cache"
        /\ fr[q].work_error = "parse_error" /\ fr[q].ret.fallback_reason = "ao3_parse_error"

-----------------------------------------------------------------------------
(* The browser scraper (browser_scraper.py): threads call search_ao3_sync.  *)
(* The browser's answers are the environment's choice: a call of the        *)
(* browser either returns or raises.  A page holds one document at a time;  *)
(* the element handles of a document are disposed when the page navigates   *)
(* to another document, and a call on a disposed handle raises.             *)

\* browser_scraper.py line 15
MAX_CONCURRENT_SEARCHES == 3

\* the dicts search_ao3_sync returns: a work, named by the document its
\* blurb was taken from, or a dict with the key "error"
PAGE1_WORK == "work of page 1"
RANDOM_WORK == "work of the random page"
TimeoutError == "error: AO3 page load timeout"
NoWorksError == "error: No works found matching the selected filters."
EmptyPageError == "error: No works found on page"
BrowserError == "error: Browser error"
ErrorDicts == {TimeoutError, NoWorksError, EmptyPageError, BrowserError}

\* the documents of a page: 0 is the blank page, 1 is page 1 of the search,
\* 2 is the random page when it is not page 1
WorkOf(doc) == IF doc = 1 THEN PAGE1_WORK ELSE RANDOM_WORK

\* the total counts a heading of the search states
ScraperCounts == {1, PAGE_SIZE + 1}

\* the number of .work.blurb elements a document can hold
BlurbCounts == 0..1

\* what the scraper leaves alone: the state of the service and of its cache
ServiceVars == <<Store, pc, fr, calls, arg, res>>

\* search_ao3_sync is called (line 101)
CALL_SEARCH(p) ==
    /\ spc[p] \in {"idle", "done"}
    /\ searches < MaxSearches
    /\ searches' = searches + 1
    /\ sfr' = [sfr EXCEPT ![p] = [SearchFrame0 EXCEPT !.search = searches + 1]]
    /\ spc' = [spc EXCEPT ![p] = "lock"]
    /\ UNCHANGED <<_browser_lock, _browser, _semaphore, contexts, ServiceVars>>

\* lines 103-107: with _browser_lock, then a new event loop runs the search
LOCK(p) ==
    /\ spc[p] = "lock"
    /\ _browser_lock = None
    /\ _browser_lock' = p
    /\ spc' = [spc EXCEPT ![p] = "get_browser"]
    /\ UNCHANGED <<_browser, _semaphore, contexts, sfr, searches, ServiceVars>>

\* lines 118 and 55-69: the browser is launched by the first search, and the
\* semaphore is made with it; a launch that raises is caught at line 192
GET_BROWSER(p) ==
    /\ spc[p] = "get_browser"
    /\ \/ /\ _browser # None
          /\ spc' = [spc EXCEPT ![p] = "semaphore"]
          /\ UNCHANGED <<_browser, _semaphore, sfr>>
       \/ /\ _browser = None
          /\ _browser' = "browser"
          /\ _semaphore' = <<MAX_CONCURRENT_SEARCHES>>
          /\ spc' = [spc EXCEPT ![p] = "semaphore"]
          /\ UNCHANGED sfr
       \/ /\ _browser = None
          /\ sfr' = [sfr EXCEPT ![p].raised = "Error", ![p].ret = BrowserError]
          /\ spc' = [spc EXCEPT ![p] = "loop_close"]
          /\ UNCHANGED <<_browser, _semaphore>>
    /\ UNCHANGED <<_browser_lock, contexts, searches, ServiceVars>>

\* line 121: async with _semaphore waits for a free slot
SEMAPHORE(p) ==
    /\ spc[p] = "semaphore"
    /\ _semaphore # <<>>
    /\ _semaphore[1] > 0
    /\ _semaphore' = <<_semaphore[1] - 1>>
    /\ spc' = [spc EXCEPT ![p] = "new_context"]
    /\ UNCHANGED <<_browser_lock, _browser, contexts, sfr, searches, ServiceVars>>

\* lines 123-125: browser.new_context, before the try block of line 128
NEW_CONTEXT(p) ==
    /\ spc[p] = "new_context"
    /\ \/ /\ contexts' = contexts \cup {sfr[p].search}
          /\ spc' = [spc EXCEPT ![p] = "new_page"]
          /\ UNCHANGED sfr
       \/ /\ sfr' = [sfr EXCEPT ![p].raised = "Error"]
          /\ spc' = [spc EXCEPT ![p] = "exit_semaphore"]
          /\ UNCHANGED contexts
    /\ UNCHANGED <<_browser_lock, _browser, _semaphore, searches, ServiceVars>>

\* line 126: context.new_page, before the try block of line 128
NEW_PAGE(p) ==
    /\ spc[p] = "new_page"
    /\ \/ /\ spc' = [spc EXCEPT ![p] = "goto_1"]
          /\ UNCHANGED sfr
       \/ /\ sfr' = [sfr EXCEPT ![p].raised = "Error"]
          /\ spc' = [spc EXCEPT ![p] = "exit_semaphore"]
    /\ UNCHANGED <<_browser_lock, _browser, _semaphore, contexts, searches, ServiceVars>>

\* lines 130-131: page.goto of page 1; an exception here, as at any later
\* call inside the try block, leaves through the finally of line 189
GOTO_1(p) ==
    /\ spc[p] = "goto_1"
    /\ \/ /\ sfr' = [sfr EXCEPT ![p].doc = 1]
          /\ spc' = [spc EXCEPT ![p] = "wait_1"]
       \/ /\ sfr' = [sfr EXCEPT ![p].raised = "Error"]
          /\ spc' = [spc EXCEPT ![p] = "finally"]
    /\ UNCHANGED <<_browser_lock, _browser, _semaphore, contexts, searches, ServiceVars>>

\* lines 134-137: wait for a blurb or a heading
WAIT_1(p) ==
    /\ spc[p] = "wait_1"
    /\ \/ /\ spc' = [spc EXCEPT ![p] = "heading"]
          /\ UNCHANGED sfr
       \/ /\ sfr' = [sfr EXCEPT ![p].ret = TimeoutError]
          /\ spc' = [spc EXCEPT ![p] = "finally"]
    /\ UNCHANGED <<_browser_lock, _browser, _semaphore, contexts, searches, ServiceVars>>

\* lines 140-162: the heading, the page count, the random page and the
\* handles of page 1's blurbs
HEADING(p) ==
    /\ spc[p] = "heading"
    /\ \E heading \in {"missing", "0 Found", "of N Works", "other"} :
       \E total_works \in ScraperCounts :
       \E blurbs \in BlurbCounts :
          /\ heading = "missing" => blurbs > 0
          /\ IF heading = "0 Found"
             THEN /\ sfr' = [sfr EXCEPT ![p].ret = NoWorksError]
                  /\ spc' = [spc EXCEPT ![p] = "finally"]
             ELSE LET total_pages == IF heading = "of N Works"
                                     THEN ValueOf(scraper_total_pages(BitsOf(total_works)))
                                     ELSE 1
                  IN  \E random_page \in scraper_random_pages(total_pages) :
                         /\ sfr' = [sfr EXCEPT ![p].random_page = random_page,
                                               ![p].page1_works = blurbs]
                         /\ spc' = [spc EXCEPT ![p] = IF random_page > 1 THEN "goto_n"
                                                      ELSE "query"]
    /\ UNCHANGED <<_browser_lock, _browser, _semaphore, contexts, searches, ServiceVars>>

\* lines 163-165: page.goto of the random page.  It returns with the new
\* document loaded, or raises: before the navigation was committed (the page
\* still shows page 1) or after it (page 1's document is gone)
GOTO_N(p) ==
    /\ spc[p] = "goto_n"
    /\ \/ /\ sfr' = [sfr EXCEPT ![p].doc = 2]
          /\ spc' = [spc EXCEPT ![p] = "wait_n"]
       \/ \E doc \in {1, 2} :
             /\ sfr' = [sfr EXCEPT ![p].doc = doc, ![p].load = "failed"]
             /\ spc' = [spc EXCEPT ![p] = "fallback"]
    /\ UNCHANGED <<_browser_lock, _browser, _semaphore, contexts, searches, ServiceVars>>

\* line 166: wait for a blurb of the random page
WAIT_N(p) ==
    /\ spc[p] = "wait_n"
    /\ \/ /\ sfr' = [sfr EXCEPT ![p].load = "ok"]
          /\ spc' = [spc EXCEPT ![p] = "query"]
       \/ /\ sfr' = [sfr EXCEPT ![p].load = "failed"]
          /\ spc' = [spc EXCEPT ![p] = "fallback"]
    /\ UNCHANGED <<_browser_lock, _browser, _semaphore, contexts, searches, ServiceVars>>

\* lines 72-98 applied to a handle taken from document `of` while the page
\* shows `doc`: the handle's query_selector raises when it is disposed
_extract_work_details(f, of) ==
    IF f.doc = of THEN [f EXCEPT !.ret = WorkOf(of)]
    ELSE [f EXCEPT !.raised = "Error"]

\* lines 167-172: the random page did not load
FALLBACK(p) ==
    /\ spc[p] = "fallback"
    /\ sfr' = [sfr EXCEPT ![p] = IF sfr[p].page1_works > 0
                                 THEN _extract_work_details(sfr[p], 1)
                                 ELSE [sfr[p] EXCEPT !.ret = TimeoutError]]
    /\ spc' = [spc EXCEPT ![p] = "finally"]
    /\ UNCHANGED <<_browser_lock, _browser, _semaphore, contexts, searches, ServiceVars>>

\* lines 175-187: the blurbs of the page shown, page 1's handles when there
\* are none, and the details of one of them
QUERY(p) ==
    /\ spc[p] = "query"
    /\ \E works \in BlurbCounts :
          /\ sfr[p].doc = 1 => works = sfr[p].page1_works
          /\ LET f == [sfr[p] EXCEPT !.works = works]
             IN  sfr' = [sfr EXCEPT ![p] =
                           IF works > 0 THEN _extract_work_details(f, f.doc)
                           ELSE IF f.page1_works > 0 THEN _extract_work_details(f, 1)
                           ELSE [f EXCEPT !.ret = EmptyPageError]]
    /\ spc' = [spc EXCEPT ![p] = "finally"]
    /\ UNCHANGED <<_browser_lock, _browser, _semaphore, contexts, searches, ServiceVars>>

\* lines 189-190: context.close()
FINALLY(p) ==
    /\ spc[p] = "finally"
    /\ contexts' = contexts \ {sfr[p].search}
    /\ spc' = [spc EXCEPT ![p] = "exit_semaphore"]
    /\ UNCHANGED <<_browser_lock, _browser, _semaphore, sfr, searches, ServiceVars>>

\* the end of the async with of line 121, and lines 192-193: an exception
\* becomes the dict of a browser error
EXIT_SEMAPHORE(p) ==
    /\ spc[p] = "exit_semaphore"
    /\ _semaphore' = <<_semaphore[1] + 1>>
    /\ sfr' = [sfr EXCEPT ![p].ret = IF sfr[p].raised # "none" THEN BrowserError
                                     ELSE sfr[p].ret]
    /\ spc' = [spc EXCEPT ![p] = "loop_close"]
    /\ UNCHANGED <<_browser_lock, _browser, contexts, searches, ServiceVars>>

\* lines 107-109: the loop is closed, the lock released and the dict returned
LOOP_CLOSE(p) ==
    /\ spc[p] = "loop_close"
    /\ _browser_lock' = None
    /\ spc' = [spc EXCEPT ![p] = "done"]
    /\ UNCHANGED <<_browser, _semaphore, contexts, sfr, searches, ServiceVars>>

InitScraper ==
    /\ now = 0
    /\ dirExists = FALSE
    /\ fileExists = FALSE
    /\ content = <<>>
    /\ Healthy
    /\ pc = [p \in Threads |-> "idle"]
    /\ fr = [p \in Threads |-> Frame0]
    /\ calls = 0
    /\ arg = NoneObj
    /\ res = NoneObj
    /\ ScraperIdle

NextScraper ==
    \/ \E p \in ScraperThreads : CALL_SEARCH(p)
    \/ \E p \in ScraperThreads : LOCK(p)
    \/ \E p \in ScraperThreads : GET_BROWSER(p)
    \/ \E p \in ScraperThreads : SEMAPHORE(p)
    \/ \E p \in ScraperThreads : NEW_CONTEXT(p)
    \/ \E p \in ScraperThreads : NEW_PAGE(p)
    \/ \E p \in ScraperThreads : GOTO_1(p)
    \/ \E p \in ScraperThreads : WAIT_1(p)
    \/ \E p \in ScraperThreads : HEADING(p)
    \/ \E p \in ScraperThreads : GOTO_N(p)
    \/ \E p \in ScraperThreads : WAIT_N(p)
    \/ \E p \in ScraperThreads : FALLBACK(p)
    \/ \E p \in ScraperThreads : QUERY(p)
    \/ \E p \in ScraperThreads : FINALLY(p)
    \/ \E p \in ScraperThreads : EXIT_SEMAPHORE(p)
    \/ \E p \in ScraperThreads : LOOP_CLOSE(p)

SpecScraper == InitScraper /\ [][NextScraper]_vars

-----------------------------------------------------------------------------
\* the searches in progress: past the semaphore of line 121 and not yet out of it
InProgress ==
    {p \in ScraperThreads :
        spc[p] \in {"new_context", "new_page", "goto_1", "wait_1", "heading", "goto_n",
                    "wait_n", "fallback", "query", "finally", "exit_semaphore"}}

\* a caller of search_ao3_sync that is made to wait before its search starts
Waiting(p) == spc[p] = "lock" /\ _browser_lock # None

\* two searches in progress at the same time, each with its context open
TwoAtOnce ==
    \E p \in InProgress : \E q \in InProgress \ {p} :
        sfr[p].search \in contexts /\ sfr[q].search \in contexts

\* the searches run one at a time, whatever the number of callers
OneAtATime == Cardinality(InProgress) <= 1 /\ ~TwoAtOnce

\* C21: the scraper serves up to MAX_CONCURRENT_SEARCHES searches at once:
\* the searches in progress are never more than 3, and while a search is in
\* progress another caller is made to wait only when 3 are in progress, so
\* that with three callers two searches are in progress at the same time.
C21_ConcurrentSearches ==
    /\ Cardinality(InProgress) <= MAX_CONCURRENT_SEARCHES
    /\ \A p \in ScraperThreads :
          (Waiting(p) /\ InProgress # {})
          => Cardinality(InProgress) = MAX_CONCURRENT_SEARCHES

\* the search of p has returned
SearchReturned(p) == spc[p] = "done"

\* the random page of the search was not page 1, and it did not load or it
\* loaded without a work
RandomPageFailed(f) ==
    /\ f.random_page > 1
    /\ f.load = "failed" \/ (f.load = "ok" /\ f.works = 0)

\* C22: when the random page is not page 1 and does not load, or loads with
\* no works, a search whose page 1 had a work returns a work of page 1, and
\* returns an error only when page 1 had no work either; search_ao3_sync
\* never raises: it returns a work or a dict with the key "error".
C22_PageOneFallback ==
    \A p \in ScraperThreads :
        SearchReturned(p)
        => /\ sfr[p].ret \in ErrorDicts \cup {PAGE1_WORK, RANDOM_WORK}
           /\ RandomPageFailed(sfr[p])
              => IF sfr[p].page1_works > 0 THEN sfr[p].ret = PAGE1_WORK
                 ELSE sfr[p].ret \in ErrorDicts

\* C23: the context a search opened is closed before the search returns, on
\* every path, an exception at page creation included; once every search
\* has returned no context is open.
C23_ContextsClosed ==
    /\ \A p \in ScraperThreads : SearchReturned(p) => sfr[p].search \notin contexts
    /\ (\A p \in ScraperThreads : spc[p] \in {"idle", "done"}) => contexts = {}

=============================================================================
